---- MODULE Spec2Model ----
(***************************************************************************)
(* tsl::array_set (src/src/array-hash/src/array_set.h): a string hash set  *)
(* whose buckets are packed byte buffers of size-prefixed key records.     *)
(*                                                                         *)
(* array_set.h is a wrapper around detail_array_hash::array_hash (member   *)
(* m_ht).  The ht_* / bucket_* / policy definitions below model that       *)
(* engine as the design specification (sections 3 and 4) describes it; the *)
(* definitions named after array_set members model array_set.h itself.     *)
(***************************************************************************)
EXTENDS Integers, Sequences, FiniteSets, TLC

\* ---------------------------------------------------------------- bounds
\* Width in bits of the element-count field (IndexSizeT).  The template
\* default is 32; a narrow field keeps the ceilings reachable.
IndexSizeBits == 2
\* Largest ordinary bucket / element count passed to the constructor,
\* rehash(n) and reserve(n).
MaxRequest == 2
\* Two-table specification: most keys either table holds.
MaxEqSize == 2

\* ------------------------------------------------------------- constants
\* KeySizeT = std::uint16_t: width of a record's size prefix.
KeySizeBits == 16
\* StoreNullTerminator = true: one terminator byte after the key bytes.
StoreNullTerminator == TRUE

RECURSIVE Pow2(_)
Pow2(n) == IF n = 0 THEN 1 ELSE 2 * Pow2(n - 1)

KEY_SIZE_BYTES == KeySizeBits \div 8
\* "The size of a key string is limited to
\*  std::numeric_limits<KeySizeT>::max() - 1."
MAX_KEY_SIZE == (Pow2(KeySizeBits) - 1) - 1
\* "The number of elements in the set is limited to
\*  std::numeric_limits<IndexSizeT>::max()."
MAX_SIZE == Pow2(IndexSizeBits) - 1
\* ceiling of the bucket count (index-width ceiling of the growth policy)
MAX_BUCKET_COUNT == Pow2(IndexSizeBits)
\* default load-factor ceiling 1.0, as numerator / denominator
DEFAULT_MAX_LOAD_FACTOR == <<1, 1>>

NotFound == -1

\* ---------------------------------------------------------------- inputs
\* The keys "", "a", "b", "ab", "ba" as byte strings.
Keys == {<<>>, <<97>>, <<98>>, <<97, 98>>, <<98, 97>>}

\* A (pointer, length) argument pair.  A key above the length ceiling is
\* given by its length alone: its bytes are never read.
KeyArg(k) == [key |-> k, size |-> Len(k)]
LongArg(n) == [key |-> <<>>, size |-> n]
\* 2^16 bytes: one more than a 16-bit size field can hold
TooLongArg == LongArg(Pow2(KeySizeBits))
\* 2^16 - 1 bytes: the largest value of a 16-bit size field
FieldMaxArg == LongArg(Pow2(KeySizeBits) - 1)
KeyArgs == {KeyArg(k) : k \in Keys} \cup {TooLongArg, FieldMaxArg}
\* The ranges and initializer lists drawn as inputs: empty, single,
\* colliding keys, a repeated key, an over-long key first or last.
Lists ==
    {<<>>,
     <<KeyArg(<<97>>)>>,
     <<KeyArg(<<97, 98>>)>>,
     <<TooLongArg>>,
     <<KeyArg(<<97>>), KeyArg(<<97>>)>>,
     <<KeyArg(<<97>>), KeyArg(<<97, 98>>)>>,
     <<KeyArg(<<97, 98>>), KeyArg(<<98, 97>>)>>,
     <<KeyArg(<<97>>), TooLongArg>>,
     <<TooLongArg, KeyArg(<<97>>)>>,
     <<KeyArg(<<97>>), KeyArg(<<97, 98>>), KeyArg(<<98, 97>>)>>}

Requests == 0..MaxRequest \cup {MAX_BUCKET_COUNT + 1}
LoadFactors == {<<0, 1>>, <<1, 2>>, <<1, 1>>, <<2, 1>>}

\* ------------------------------------------------- hashing capability
RECURSIVE SumBytes(_)
SumBytes(s) == IF s = <<>> THEN 0 ELSE Head(s) + SumBytes(Tail(s))

\* The injected hash: a byte sum, so that anagrams collide at every
\* bucket count.
Hash(key) == SumBytes(key)

\* The injected equality over (bytes_a, len_a, bytes_b, len_b).
key_equal(a, len_a, b, len_b) == len_a = len_b /\ a = b

\* ----------------------------------------------------- growth policy
RECURSIVE BitAnd(_, _)
BitAnd(a, b) ==
    IF a = 0 \/ b = 0 THEN 0
    ELSE (a % 2) * (b % 2) + 2 * BitAnd(a \div 2, b \div 2)

RECURSIVE DoubleUntil(_, _)
DoubleUntil(c, min) == IF c >= min THEN c ELSE DoubleUntil(2 * c, min)

\* bucket_count_for(min_requested): a power of two >= 1 covering min.
bucket_count_for(min) == DoubleUntil(1, min)

\* bucket_index(hash, bucket_count) = hash AND (bucket_count - 1)
bucket_index(hash, bucket_count) == BitAnd(hash, bucket_count - 1)

\* ------------------------------------------------------ bucket store
\* A bucket is a sequence of bytes; byte offset o is element o + 1.
EncodeSize(n) == [i \in 1..KEY_SIZE_BYTES |-> (n \div Pow2(8 * (i - 1))) % 256]

RECURSIVE DecodeSize(_)
DecodeSize(bytes) ==
    IF bytes = <<>> THEN 0 ELSE Head(bytes) + 256 * DecodeSize(Tail(bytes))

Terminator == IF StoreNullTerminator THEN <<0>> ELSE <<>>

EncodeRecord(key) == EncodeSize(Len(key)) \o key \o Terminator

RecordKeySize(buf, off) == DecodeSize(SubSeq(buf, off + 1, off + KEY_SIZE_BYTES))

RecordKey(buf, off) ==
    SubSeq(buf, off + KEY_SIZE_BYTES + 1,
                off + KEY_SIZE_BYTES + RecordKeySize(buf, off))

RecordEnd(buf, off) ==
    off + KEY_SIZE_BYTES + RecordKeySize(buf, off) + Len(Terminator)

\* append(bucket, key_bytes) -> offset
bucket_append(buf, key) == [buf |-> buf \o EncodeRecord(key), offset |-> Len(buf)]

\* scan_find: walk the records from offset 0, skipping by the size field.
RECURSIVE scan_from(_, _, _, _)
scan_from(buf, off, key, key_size) ==
    IF off >= Len(buf) THEN NotFound
    ELSE IF key_equal(RecordKey(buf, off), RecordKeySize(buf, off), key, key_size)
         THEN off
    ELSE scan_from(buf, RecordEnd(buf, off), key, key_size)

scan_find(buf, key, key_size) == scan_from(buf, 0, key, key_size)

\* remove(bucket, offset) -> bytes_removed: shift the trailing bytes left.
bucket_remove(buf, off) ==
    LET end == RecordEnd(buf, off)
    IN  [buf     |-> SubSeq(buf, 1, off) \o SubSeq(buf, end + 1, Len(buf)),
         removed |-> end - off]

\* The start offsets of the records of a bucket, walking from offset 0.
RECURSIVE offsets_from(_, _)
offsets_from(buf, off) ==
    IF off >= Len(buf) THEN <<>>
    ELSE <<off>> \o offsets_from(buf, RecordEnd(buf, off))

RecordOffsets(buf) == offsets_from(buf, 0)

\* ------------------------------------------------------------ the table
\* buckets[b + 1] is bucket b; index is the Index Table of locators.
Locator(b, off) == [bucket |-> b, offset |-> off]
End == Locator(NotFound, NotFound)

EmptyBuckets(n) == [b \in 1..n |-> <<>>]

bucket_count(t) == Len(t.buckets)
size(t) == t.nb_elements
empty(t) == t.nb_elements = 0
max_load_factor(t) == t.mlf

\* ceil(n / mlf) for the load factor mlf[1] / mlf[2]
CeilDiv(n, mlf) == (n * mlf[2] + mlf[1] - 1) \div mlf[1]

\* element_count / bucket_count <= max_load_factor, for n elements
LoadFits(n, bc, mlf) == n * mlf[2] <= bc * mlf[1]

Ok(t) == [t |-> t, err |-> "ok"]
Throw(t, e) == [t |-> t, err |-> e]

\* The constructor: the policy's bucket count for the requested one.
ht_construct(n, mlf) ==
    [buckets     |-> EmptyBuckets(bucket_count_for(n)),
     index       |-> <<>>,
     nb_elements |-> 0,
     mlf         |-> mlf]

bucket_for(t, key) == bucket_index(Hash(key), bucket_count(t))

\* The key a locator designates, by walking its bucket; NotFound for a
\* locator that is not the start of a record.
Deref(t, loc) ==
    IF /\ loc.bucket >= 0
       /\ loc.bucket < bucket_count(t)
       /\ \E i \in DOMAIN RecordOffsets(t.buckets[loc.bucket + 1]) :
              RecordOffsets(t.buckets[loc.bucket + 1])[i] = loc.offset
    THEN RecordKey(t.buckets[loc.bucket + 1], loc.offset)
    ELSE NotFound

ht_find(t, key, key_size) ==
    LET b   == bucket_for(t, key)
        off == scan_find(t.buckets[b + 1], key, key_size)
    IN  IF off = NotFound THEN End ELSE Locator(b, off)

ht_count(t, key, key_size) ==
    IF ht_find(t, key, key_size) = End THEN 0 ELSE 1

\* Rehash engine: a fresh store of the new count, every live key appended
\* to it in Index Table order, then both replaced at once.
RECURSIVE rebuild(_, _, _, _)
rebuild(t, i, buckets, index) ==
    IF i > Len(t.index) THEN [buckets |-> buckets, index |-> index]
    ELSE LET key == RecordKey(t.buckets[t.index[i].bucket + 1], t.index[i].offset)
             b   == bucket_index(Hash(key), Len(buckets))
             app == bucket_append(buckets[b + 1], key)
         IN  rebuild(t, i + 1, [buckets EXCEPT ![b + 1] = app.buf],
                     Append(index, Locator(b, app.offset)))

rehash_impl(t, min) ==
    IF min > MAX_BUCKET_COUNT \/ bucket_count_for(min) > MAX_BUCKET_COUNT
    THEN Throw(t, "CapacityExceeded")
    ELSE LET r == rebuild(t, 1, EmptyBuckets(bucket_count_for(min)), <<>>)
         IN  Ok([t EXCEPT !.buckets = r.buckets, !.index = r.index])

ht_rehash(t, n) == rehash_impl(t, n)

ht_reserve(t, n) == rehash_impl(t, CeilDiv(n, t.mlf))

ht_shrink_to_fit(t) == rehash_impl(t, CeilDiv(t.nb_elements, t.mlf))

ht_clear(t) ==
    [t EXCEPT !.buckets = EmptyBuckets(bucket_count(t)),
              !.index = <<>>, !.nb_elements = 0]

ht_set_max_load_factor(t, ml) ==
    IF ml[1] <= 0 THEN Throw(t, "InvalidArgument")
    ELSE Ok([t EXCEPT !.mlf = ml])

\* Append the record and its locator (the key is known to be absent).
append_new(t, key) ==
    LET b   == bucket_for(t, key)
        app == bucket_append(t.buckets[b + 1], key)
    IN  [t EXCEPT !.buckets[b + 1] = app.buf,
                  !.index = Append(@, Locator(b, app.offset)),
                  !.nb_elements = @ + 1]

\* ht_insert growing on the load factor before the insert, not after it.
ht_insert_late_growth(t, key, key_size) ==
    LET found == ht_find(t, key, key_size)
        grow  == ~LoadFits(t.nb_elements, bucket_count(t), t.mlf)
        re    == IF grow THEN rehash_impl(t, CeilDiv(t.nb_elements, t.mlf))
                 ELSE Ok(t)
        none  == [inserted |-> FALSE, handle |-> End, rehashed |-> FALSE]
    IN  IF key_size > MAX_KEY_SIZE THEN Throw(t, "CapacityExceeded") @@ none
        ELSE IF found # End
             THEN Ok(t) @@ [inserted |-> FALSE, handle |-> found, rehashed |-> FALSE]
        ELSE IF t.nb_elements >= MAX_SIZE THEN Throw(t, "CapacityExceeded") @@ none
        ELSE IF re.err # "ok" THEN Throw(t, re.err) @@ none
        ELSE LET t2 == append_new(re.t, key)
             IN  Ok(t2) @@ [inserted |-> TRUE, handle |-> t2.index[Len(t2.index)],
                            rehashed |-> grow]

\* insert(bytes, len) -> (handle, inserted)
ht_insert(t, key, key_size) ==
    LET found == ht_find(t, key, key_size)
        grow  == ~LoadFits(t.nb_elements + 1, bucket_count(t), t.mlf)
        re    == IF grow THEN rehash_impl(t, CeilDiv(t.nb_elements + 1, t.mlf))
                 ELSE Ok(t)
        none  == [inserted |-> FALSE, handle |-> End, rehashed |-> FALSE]
    IN  IF key_size > MAX_KEY_SIZE THEN Throw(t, "CapacityExceeded") @@ none
        ELSE IF found # End
             THEN Ok(t) @@ [inserted |-> FALSE, handle |-> found, rehashed |-> FALSE]
        ELSE IF t.nb_elements >= MAX_SIZE THEN Throw(t, "CapacityExceeded") @@ none
        ELSE IF re.err # "ok" THEN Throw(t, re.err) @@ none
        ELSE LET t2 == append_new(re.t, key)
             IN  Ok(t2) @@ [inserted |-> TRUE, handle |-> t2.index[Len(t2.index)],
                            rehashed |-> grow]

\* Index Table remove_at: swap with the last live slot, then truncate.
index_remove_at(index, p) ==
    SubSeq([index EXCEPT ![p] = index[Len(index)]], 1, Len(index) - 1)

\* repair_locators that leaves every locator where it was.
repair_locators_none(index, b, off, n) == index

\* Every locator of bucket b whose offset lay after off moves down by n.
repair_locators(index, b, off, n) ==
    [i \in DOMAIN index |->
        IF index[i].bucket = b /\ index[i].offset > off
        THEN Locator(b, index[i].offset - n) ELSE index[i]]

\* erase(handle): p is the handle's slot of the Index Table.
ht_erase_at(t, p) ==
    LET loc == t.index[p]
        rem == bucket_remove(t.buckets[loc.bucket + 1], loc.offset)
    IN  [t EXCEPT !.buckets[loc.bucket + 1] = rem.buf,
                  !.index = index_remove_at(
                                repair_locators(@, loc.bucket, loc.offset, rem.removed), p),
                  !.nb_elements = @ - 1]

\* erase(bytes, len) -> removed_count
ht_erase(t, key, key_size) ==
    LET found == ht_find(t, key, key_size)
    IN  IF found = End THEN Ok(t) @@ [removed |-> 0]
        ELSE LET p == CHOOSE i \in DOMAIN t.index : t.index[i] = found
             IN  Ok(ht_erase_at(t, p)) @@ [removed |-> 1]

\* ------------------------------------------------------------ array_set
\* insert_ks with the table shrunk to fit after the insert.
insert_ks_then_shrink(t, key, key_size) ==
    LET r == ht_insert(t, key, key_size)
    IN  [r EXCEPT !.t = ht_shrink_to_fit(r.t).t]

\* insert_ks with room reserved for one more element before the lookup.
insert_ks_reserve_first(t, key, key_size) ==
    ht_insert(ht_reserve(t, t.nb_elements + 1).t, key, key_size)

insert_ks(t, key, key_size) == ht_insert(t, key, key_size)

\* erase_ks forwarding to count: it reports the key and removes nothing.
erase_ks_as_count(t, key, key_size) ==
    Ok(t) @@ [removed |-> ht_count(t, key, key_size)]

\* erase_ks that gives the freed buckets back after the erase.
erase_ks_then_shrink(t, key, key_size) ==
    LET r == ht_erase(t, key, key_size)
    IN  [r EXCEPT !.t = ht_shrink_to_fit(r.t).t]

erase_ks(t, key, key_size) == ht_erase(t, key, key_size)

erase(t, pos) == ht_erase_at(t, pos)

count_ks(t, key, key_size) == ht_count(t, key, key_size)

find_ks(t, key, key_size) == ht_find(t, key, key_size)

clear(t) == ht_clear(t)

\* shrink_to_fit as rehash(size()): one bucket per element, whatever the
\* load-factor ceiling.
shrink_to_fit_one_per_key(t) == ht_rehash(t, t.nb_elements)

shrink_to_fit(t) == ht_shrink_to_fit(t)

rehash(t, count) == ht_rehash(t, count)

reserve(t, count) == ht_reserve(t, count)

set_max_load_factor(t, ml) == ht_set_max_load_factor(t, ml)

\* for(auto it = first; it != last; ++it) insert(*it);  an exception
\* leaves the loop with the table as the earlier inserts made it.
\* done: the elements whose insert returned.
\* The loop started one element late (++first before the first insert).
RECURSIVE insert_each_skip_first(_, _, _)
insert_each_skip_first(t, list, i) ==
    IF i > Len(list) THEN Ok(t) @@ [done |-> Len(list)]
    ELSE IF i = 1 THEN insert_each_skip_first(t, list, 2)
    ELSE LET r == insert_ks(t, list[i].key, list[i].size)
         IN  IF r.err # "ok" THEN Throw(r.t, r.err) @@ [done |-> i - 1]
             ELSE insert_each_skip_first(r.t, list, i + 1)

RECURSIVE insert_each(_, _, _)
insert_each(t, list, i) ==
    IF i > Len(list) THEN Ok(t) @@ [done |-> Len(list)]
    ELSE LET r == insert_ks(t, list[i].key, list[i].size)
         IN  IF r.err # "ok" THEN Throw(r.t, r.err) @@ [done |-> i - 1]
             ELSE insert_each(r.t, list, i + 1)

\* insert(first, last): reserve(distance(first, last)) for forward
\* iterators, then the loop.
insert_range(t, list, forward) ==
    LET res == IF forward THEN reserve(t, Len(list)) ELSE Ok(t)
    IN  IF res.err # "ok" THEN Throw(t, res.err) @@ [done |-> 0]
        ELSE insert_each(res.t, list, 1)

\* operator=(initializer_list): clear(); insert(ilist);
operator_assign(t, ilist) == insert_range(clear(t), ilist, TRUE)

\* operator== without the comparison of the sizes.
operator_eq_no_size(l, r) ==
    \A i \in DOMAIN l.index :
        LET key == RecordKey(l.buckets[l.index[i].bucket + 1], l.index[i].offset)
        IN  find_ks(r, key, Len(key)) # End

\* operator==: equal sizes, and every key of lhs found in rhs.
operator_eq(l, r) ==
    IF size(l) # size(r) THEN FALSE
    ELSE \A i \in DOMAIN l.index :
            LET key == RecordKey(l.buckets[l.index[i].bucket + 1], l.index[i].offset)
            IN  find_ks(r, key, Len(key)) # End

operator_ne(l, r) == ~operator_eq(l, r)

\* ---------------------------------------------------------------- state
VARIABLES
    set,    \* the table the operations act on
    other,  \* a second table, to compare with (left alone in Spec)
    live    \* the keys inserted and not erased since, as the calls returned

vars == <<set, other, live>>

\* The key an argument pair denotes (none for a length-only argument).
ArgKey(a) == IF a.size = Len(a.key) THEN {a.key} ELSE {}

ListKeys(list, n) == UNION {ArgKey(list[i]) : i \in 1..n}

Init ==
    /\ \E n \in 0..MaxRequest : set = ht_construct(n, DEFAULT_MAX_LOAD_FACTOR)
    /\ other = ht_construct(0, DEFAULT_MAX_LOAD_FACTOR)
    /\ live = {}

Insert(a) ==
    LET r == insert_ks(set, a.key, a.size)
    IN  /\ set' = r.t
        /\ live' = IF r.err = "ok" THEN live \cup ArgKey(a) ELSE live
        /\ UNCHANGED other

InsertRange(list, forward) ==
    LET r == insert_range(set, list, forward)
    IN  /\ set' = r.t
        /\ live' = live \cup ListKeys(list, r.done)
        /\ UNCHANGED other

Assign(ilist) ==
    LET r == operator_assign(set, ilist)
    IN  /\ set' = r.t
        /\ live' = ListKeys(ilist, r.done)
        /\ UNCHANGED other

EraseKey(a) ==
    /\ set' = erase_ks(set, a.key, a.size).t
    /\ live' = live \ ArgKey(a)
    /\ UNCHANGED other

ErasePos(pos) ==
    /\ pos \in DOMAIN set.index
    /\ set' = erase(set, pos)
    /\ live' = live \ {Deref(set, set.index[pos])}
    /\ UNCHANGED other

Clear ==
    /\ set' = clear(set)
    /\ live' = {}
    /\ UNCHANGED other

ShrinkToFit ==
    /\ set' = shrink_to_fit(set).t
    /\ UNCHANGED <<other, live>>

Rehash(n) ==
    /\ set' = rehash(set, n).t
    /\ UNCHANGED <<other, live>>

Reserve(n) ==
    /\ set' = reserve(set, n).t
    /\ UNCHANGED <<other, live>>

SetMaxLoadFactor(ml) ==
    /\ set' = set_max_load_factor(set, ml).t
    /\ UNCHANGED <<other, live>>

Next ==
    \/ \E a \in KeyArgs : Insert(a)
    \/ \E list \in Lists, forward \in BOOLEAN : InsertRange(list, forward)
    \/ \E ilist \in Lists : Assign(ilist)
    \/ \E a \in KeyArgs : EraseKey(a)
    \/ \E pos \in 1..MAX_SIZE : ErasePos(pos)
    \/ Clear
    \/ ShrinkToFit
    \/ \E n \in Requests : Rehash(n)
    \/ \E n \in Requests : Reserve(n)
    \/ \E ml \in LoadFactors : SetMaxLoadFactor(ml)

Spec == Init /\ [][Next]_vars

\* Insert-only behaviours from any constructed table, the load-factor
\* ceiling being set, if at all, before the first insert.
NextGrow ==
    \/ \E a \in KeyArgs : Insert(a)
    \/ \E ml \in LoadFactors : empty(set) /\ SetMaxLoadFactor(ml)

SpecGrow == Init /\ [][NextGrow]_vars

\* Two tables, each built by its own inserts, erases and rehashes.
InitEq ==
    /\ \E n \in 0..MaxRequest : set = ht_construct(n, DEFAULT_MAX_LOAD_FACTOR)
    /\ \E n \in 0..MaxRequest : other = ht_construct(n, DEFAULT_MAX_LOAD_FACTOR)
    /\ live = {}

InsertOther(a) ==
    /\ other' = insert_ks(other, a.key, a.size).t
    /\ UNCHANGED <<set, live>>

EraseOther(a) ==
    /\ other' = erase_ks(other, a.key, a.size).t
    /\ UNCHANGED <<set, live>>

RehashOther(n) ==
    /\ other' = rehash(other, n).t
    /\ UNCHANGED <<set, live>>

\* The keys "a", "b", "ab", "ba".
EqArgs == {KeyArg(k) : k \in Keys \ {<<>>}}

NextEq ==
    \/ \E a \in EqArgs : size(set) < MaxEqSize /\ Insert(a)
    \/ \E a \in EqArgs : EraseKey(a)
    \/ \E n \in Requests : Rehash(n)
    \/ \E a \in EqArgs : size(other) < MaxEqSize /\ InsertOther(a)
    \/ \E a \in EqArgs : EraseOther(a)
    \/ \E n \in Requests : RehashOther(n)

SpecEq == InitEq /\ [][NextEq]_vars

\* ------------------------------------------------------------ observers
\* The valid handles of a table: the start of every record of every bucket.
Handles(t) ==
    UNION {{Locator(b - 1, RecordOffsets(t.buckets[b])[i]) :
               i \in DOMAIN RecordOffsets(t.buckets[b])} : b \in DOMAIN t.buckets}

\* The keys a table stores, read from its buckets.
KeySet(t) == {Deref(t, h) : h \in Handles(t)}

\* The number of records of all buckets.
RECURSIVE RecordCount(_, _)
RecordCount(t, b) ==
    IF b > Len(t.buckets) THEN 0
    ELSE Len(RecordOffsets(t.buckets[b])) + RecordCount(t, b + 1)

PowersOfTwo == {Pow2(e) : e \in 0..(IndexSizeBits + 2)}

IsPowerOfTwo(n) == n \in PowersOfTwo

\* The least power of two c with n / c <= mlf.
MinBucketCount(n, mlf) ==
    CHOOSE c \in PowersOfTwo :
        /\ LoadFits(n, c, mlf)
        /\ \A d \in PowersOfTwo : d < c => ~LoadFits(n, d, mlf)

\* An erase has reordered the Index Table: two records of one bucket are
\* listed against their order in the bucket.
Reordered(t) ==
    \E i, j \in DOMAIN t.index :
        /\ i < j
        /\ t.index[i].bucket = t.index[j].bucket
        /\ t.index[i].offset > t.index[j].offset

\* ------------------------------------------------------------ properties
\* C1: set semantics.  For every key k: if k was inserted and not erased
\* since, count(k) = 1 and find(k) is a valid handle that dereferences to
\* k; otherwise count(k) = 0 and find(k) is the not-found handle.  size()
\* is the number of such keys.
SetSemantics ==
    /\ \A k \in Keys :
          IF k \in live
          THEN /\ count_ks(set, k, Len(k)) = 1
               /\ find_ks(set, k, Len(k)) \in Handles(set)
               /\ Deref(set, find_ks(set, k, Len(k))) = k
          ELSE /\ count_ks(set, k, Len(k)) = 0
               /\ find_ks(set, k, Len(k)) = End
    /\ size(set) = Cardinality(live)

\* Two keys survive an erase that reordered the Index Table.
SetSemanticsWitness ==
    /\ Cardinality(live) = 2
    /\ Reordered(set)

\* C2: an insert of an absent key that does not rehash keeps every valid
\* handle valid and dereferencing to the same key; it appends one record to
\* one bucket and one locator to the end of the Index Table.
InsertKeepsHandles ==
    \A a \in KeyArgs :
        LET r == insert_ks(set, a.key, a.size)
            b == bucket_for(set, a.key)
        IN  (r.err = "ok" /\ r.inserted /\ ~r.rehashed) =>
               /\ \A h \in Handles(set) :
                     h \in Handles(r.t) /\ Deref(r.t, h) = Deref(set, h)
               /\ bucket_count(r.t) = bucket_count(set)
               /\ \A c \in DOMAIN set.buckets :
                     r.t.buckets[c] =
                        IF c = b + 1 THEN set.buckets[c] \o EncodeRecord(a.key)
                        ELSE set.buckets[c]
               /\ r.t.index =
                     Append(set.index, Locator(b, Len(set.buckets[b + 1])))

\* A table, reordered by an erase, with a live record in the bucket that a
\* rehash-free insert appends to.
InsertKeepsHandlesWitness ==
    \E a \in KeyArgs :
        LET r == insert_ks(set, a.key, a.size)
        IN  /\ r.err = "ok" /\ r.inserted /\ ~r.rehashed
            /\ set.buckets[bucket_for(set, a.key) + 1] # <<>>
            /\ Reordered(set)

Rejected(r) == r.err = "CapacityExceeded"

\* C3 as claimed: every mutating operation rejected with CapacityExceeded
\* (single-key insert, range / initializer-list insert, operator=,
\* rehash(n), reserve(n)) leaves the table exactly as it was.
FailureAtomic ==
    /\ \A a \in KeyArgs :
          LET r == insert_ks(set, a.key, a.size) IN Rejected(r) => r.t = set
    /\ \A list \in Lists, forward \in BOOLEAN :
          LET r == insert_range(set, list, forward) IN Rejected(r) => r.t = set
    /\ \A ilist \in Lists :
          LET r == operator_assign(set, ilist) IN Rejected(r) => r.t = set
    /\ \A n \in Requests :
          /\ LET r == rehash(set, n) IN Rejected(r) => r.t = set
          /\ LET r == reserve(set, n) IN Rejected(r) => r.t = set

\* C3 as amended: a rejected single-key insert, rehash(n) or reserve(n)
\* leaves the table exactly as it was.  A range insert rejected by its
\* reserve leaves it as it was; rejected at one of its keys, it has added
\* the keys before that one.  A rejected operator= leaves the table holding
\* only the keys of the list before the rejected one.
RejectedCallEffect ==
    /\ \A a \in KeyArgs :
          LET r == insert_ks(set, a.key, a.size) IN Rejected(r) => r.t = set
    /\ \A n \in Requests :
          /\ LET r == rehash(set, n) IN Rejected(r) => r.t = set
          /\ LET r == reserve(set, n) IN Rejected(r) => r.t = set
    /\ \A list \in Lists, forward \in BOOLEAN :
          LET r == insert_range(set, list, forward)
          IN  Rejected(r) =>
                 IF forward /\ Rejected(reserve(set, Len(list)))
                 THEN r.t = set
                 ELSE /\ KeySet(r.t) = KeySet(set) \cup ListKeys(list, r.done)
                      /\ size(r.t) = Cardinality(KeySet(r.t))
                      /\ r.done < Len(list)
    /\ \A ilist \in Lists :
          LET r == operator_assign(set, ilist)
          IN  Rejected(r) =>
                 /\ KeySet(r.t) = ListKeys(ilist, r.done)
                 /\ size(r.t) = Cardinality(KeySet(r.t))
                 /\ r.done < Len(ilist)

\* A full table that holds "a" and lacks "ab": the insert of "ab" is
\* rejected by the element ceiling, alone and in a range after "a".
RejectedCallWitness ==
    /\ size(set) = MAX_SIZE
    /\ count_ks(set, <<97, 98>>, 2) = 0
    /\ count_ks(set, <<97>>, 1) = 1

\* C4 as claimed, for the 16-bit size field: max_key_size() is 2^16 - 1; the
\* insert of a key of 2^16 - 1 bytes (into a table with room for it) returns
\* inserted = true and adds one element; the insert of a key of 2^16 bytes
\* is rejected and stores nothing.
KeyLengthCeiling ==
    /\ MAX_KEY_SIZE = Pow2(KeySizeBits) - 1
    /\ LET r == insert_ks(set, FieldMaxArg.key, FieldMaxArg.size)
       IN  (size(set) < MAX_SIZE
              /\ LoadFits(size(set) + 1, bucket_count(set), set.mlf)) =>
              /\ r.err = "ok" /\ r.inserted
              /\ size(r.t) = size(set) + 1
    /\ LET r == insert_ks(set, TooLongArg.key, TooLongArg.size)
       IN  Rejected(r) /\ r.t = set

\* C5: the insert of an absent key, when it returns, returns inserted = true
\* and adds exactly one element; the insert of a present key returns
\* inserted = false with a handle to the stored record and changes nothing
\* of the table.
DuplicateInsertNoOp ==
    \A a \in KeyArgs :
        LET r == insert_ks(set, a.key, a.size)
        IN  /\ count_ks(set, a.key, a.size) = 1 =>
                  /\ r.err = "ok" /\ ~r.inserted
                  /\ r.handle \in Handles(set)
                  /\ Deref(set, r.handle) = a.key
                  /\ r.t = set
            /\ (count_ks(set, a.key, a.size) = 0 /\ r.err = "ok") =>
                  /\ r.inserted
                  /\ size(r.t) = size(set) + 1
                  /\ count_ks(r.t, a.key, a.size) = 1

\* A table at its load-factor ceiling, below the bucket ceiling, that holds
\* keys: taken for a new key, one of them would make the table rehash.
DuplicateInsertWitness ==
    /\ size(set) >= 2
    /\ ~LoadFits(size(set) + 1, bucket_count(set), set.mlf)
    /\ bucket_count(set) < MAX_BUCKET_COUNT

\* C6: in every insert-only behaviour from a constructed table (any
\* requested bucket count, 0 included; any load-factor ceiling, fixed
\* before the first insert), bucket_count is a power of two >= 1,
\* element_count / bucket_count <= max_load_factor (bucket_count >= size at
\* the ceiling 1.0), size is the number of keys inserted, and every inserted
\* key is found.
GrowthInvariant ==
    /\ IsPowerOfTwo(bucket_count(set))
    /\ bucket_count(set) >= 1
    /\ LoadFits(size(set), bucket_count(set), max_load_factor(set))
    /\ max_load_factor(set) = <<1, 1>> => bucket_count(set) >= size(set)
    /\ size(set) = Cardinality(live)
    /\ \A k \in live : count_ks(set, k, Len(k)) = 1

\* Three keys in four buckets: more buckets than any constructor request
\* of these behaviours gives, so an insert has rehashed.
GrowthWitness ==
    /\ size(set) = 3
    /\ max_load_factor(set) = DEFAULT_MAX_LOAD_FACTOR
    /\ bucket_count(set) = 4
    /\ bucket_count(set) > bucket_count_for(MaxRequest)

\* C7: A == B exactly when A and B store the same keys, whatever their
\* bucket counts and insertion orders; == is symmetric and != is its
\* negation; erasing a key from one of two equal tables makes them unequal.
TableEquality ==
    /\ operator_eq(set, other) <=> KeySet(set) = KeySet(other)
    /\ operator_eq(set, other) <=> operator_eq(other, set)
    /\ operator_ne(set, other) <=> ~operator_eq(set, other)
    /\ operator_eq(set, other) =>
          \A a \in EqArgs :
              count_ks(set, a.key, a.size) = 1 =>
                 /\ operator_ne(erase_ks(set, a.key, a.size).t, other)
                 /\ operator_ne(other, erase_ks(set, a.key, a.size).t)
                 /\ operator_ne(set, erase_ks(other, a.key, a.size).t)

\* Two equal tables of two keys with different bucket counts and
\* different Index Table orders.
TableEqualityWitness ==
    /\ operator_eq(set, other)
    /\ size(set) = 2
    /\ bucket_count(set) # bucket_count(other)
    /\ Deref(set, set.index[1]) # Deref(other, other.index[1])

\* C8 as claimed: shrink_to_fit keeps the key set and the size, sets
\* bucket_count to the least count of the policy with element_count /
\* bucket_count <= max_load_factor, and so never raises bucket_count.
ShrinkNeverGrows ==
    LET r == shrink_to_fit(set)
    IN  /\ KeySet(r.t) = KeySet(set)
        /\ size(r.t) = size(set)
        /\ bucket_count(r.t) = MinBucketCount(size(set), max_load_factor(set))
        /\ bucket_count(r.t) <= bucket_count(set)

\* C8 as amended: a shrink_to_fit that is not rejected keeps the key set,
\* the size and the Index Table order, rebuilds every bucket in that order,
\* and sets bucket_count to the least power of two with element_count /
\* bucket_count <= max_load_factor; that is no more than the count before
\* whenever the load factor before was within max_load_factor.  It is
\* rejected, changing nothing, only when that count is above the ceiling.
ShrinkToFitEffect ==
    LET r   == shrink_to_fit(set)
        min == MinBucketCount(size(set), max_load_factor(set))
    IN  IF r.err = "ok"
        THEN /\ KeySet(r.t) = KeySet(set)
             /\ size(r.t) = size(set)
             /\ bucket_count(r.t) = min
             /\ LoadFits(size(set), bucket_count(set), max_load_factor(set))
                   => bucket_count(r.t) <= bucket_count(set)
             /\ Len(r.t.index) = Len(set.index)
             /\ \A i \in DOMAIN set.index :
                   Deref(r.t, r.t.index[i]) = Deref(set, set.index[i])
             /\ ~Reordered(r.t)
        ELSE /\ Rejected(r)
             /\ min > MAX_BUCKET_COUNT
             /\ r.t = set

\* One key left in four buckets at the ceiling 1.0: most keys erased.
ShrinkToFitWitness ==
    /\ size(set) = 1
    /\ bucket_count(set) = 4
    /\ max_load_factor(set) = <<1, 1>>

\* C9: the Index Table has one locator per live key; its locators are
\* pairwise distinct; each is the start of a record found by walking its
\* bucket from offset 0, and every record of every bucket has its locator;
\* iterating the Index Table yields the live keys, each once.  An erase
\* moves the records behind the erased one, and their locators, down by the
\* erased record's byte count and leaves every other record where it was.
IndexConsistent ==
    /\ Len(set.index) = size(set)
    /\ Len(set.index) = Cardinality(live)
    /\ \A i, j \in DOMAIN set.index : set.index[i] = set.index[j] => i = j
    /\ {set.index[i] : i \in DOMAIN set.index} = Handles(set)
    /\ RecordCount(set, 1) = Len(set.index)
    /\ {Deref(set, set.index[i]) : i \in DOMAIN set.index} = live
    /\ \A i, j \in DOMAIN set.index :
          Deref(set, set.index[i]) = Deref(set, set.index[j]) => i = j
    /\ \A pos \in DOMAIN set.index :
          LET loc   == set.index[pos]
              bytes == Len(EncodeRecord(Deref(set, loc)))
              after == erase(set, pos)
              Moved(h) == IF h.bucket = loc.bucket /\ h.offset > loc.offset
                          THEN Locator(h.bucket, h.offset - bytes) ELSE h
          IN  /\ {after.index[i] : i \in DOMAIN after.index} =
                    {Moved(h) : h \in Handles(set) \ {loc}}
              /\ \A h \in Handles(set) \ {loc} :
                    Deref(after, Moved(h)) = Deref(set, h)
              /\ Len(after.index) = Len(set.index) - 1
              /\ pos < Len(set.index) =>
                    after.index[pos] = Moved(set.index[Len(set.index)])

\* Three live keys after an erase that reordered the Index Table.
IndexConsistentWitness ==
    /\ Cardinality(live) >= 3
    /\ Reordered(set)

====
